---------------------------- MODULE Spec2Model ----------------------------
(***************************************************************************)
(* Consensus-spelling engine of Interla: progressive multiple sequence     *)
(* alignment (src/msa.py), per-column weighted candidates and the ladder   *)
(* of heuristic levels (src/str_barycenter.py), the branch-and-bound       *)
(* search with its bounded memo (src/sampler.py) and the pronounceability  *)
(* cost (src/gen_vocabulary.py).                                           *)
(*                                                                         *)
(* Strings are sequences of one-character strings.  Weights and costs are  *)
(* exact fixed-point integers, One standing for 1.0; floating-point        *)
(* rounding is not modelled.  +infinity is the integer Inf, larger than    *)
(* every finite cost the bounds allow, with Plus absorbing it.             *)
(***************************************************************************)
EXTENDS Integers, Sequences, FiniteSets, TLC

VARIABLES
    pc,               \* position of the modelled call
    tokens,           \* sample_tokens: candidate characters per column
    token_weights,    \* sample_tokens: candidate costs per column
    memo_size_limit,  \* sample_tokens: memo_size_limit argument
    depth_limit,      \* sample_tokens: depth_limit argument (NoDepthLimit or <<n>>)
    result,           \* outcome of the last sample_tokens call
    words,            \* string_barycenter / msa: the input words
    weights,          \* string_barycenter: weights (NoWeights or <<list>>)
    aligned,          \* msa: the aligned sequences built so far
    seq_idx,          \* msa: index in words of the next sequence to add
    columns,          \* align_words_list: the transposed alignment
    level,            \* string_barycenter: index in HEURISTICS of the next attempt
    attempts,         \* string_barycenter: the attempts made, in order
    bary,             \* string_barycenter: the local bary
    error,            \* exception that left the modelled call, or None
    counter,          \* compute_bary: the Counter of the column being counted
    col_n,            \* compute_bary: pairs of the column already counted
    cands,            \* compute_bary: candidates selected for the column
    caller,           \* the function that called string_barycenter, or None
    assoc_words,      \* compute_token: the entries (word, language weight), in order
    int_ipa_token,    \* compute_token: the local int_ipa_token
    int_orth_token,   \* compute_token: the local int_orth_token
    sorted_indices,   \* recursive_search: sorted_indices argument
    best_weight_so_far, \* recursive_search: best_weight_so_far[0] at the call
    comps,            \* two string_barycenter computations run in turns
    stack,            \* recursive_search: the frames of the pending calls, outermost first
    search_memo,      \* recursive_search: the memo dictionary
    ret,              \* recursive_search: the value a call has just returned, or NoReturn
    entered,          \* recursive_search: the nodes (position, path) of the calls made, in order
    memo_hits         \* recursive_search: number of calls answered from the memo

sampleVars == <<tokens, token_weights, memo_size_limit, depth_limit, result>>

msaVars == <<words, aligned, seq_idx, columns>>

baryVars == <<weights, level, attempts, bary, error>>

columnVars == <<counter, col_n, cands>>

tokenVars == <<caller, assoc_words, int_ipa_token, int_orth_token>>

stackVars == <<stack, search_memo, ret, entered, memo_hits>>

searchVars == <<sorted_indices, best_weight_so_far, stackVars>>

callVars == <<tokenVars, searchVars, comps>>

vars == <<pc, sampleVars, msaVars, baryVars, columnVars, callVars>>

----------------------------------------------------------------------------
(* Bounds of the model *)

MaxCols == 3

MaxCands == 2

MaxTotalCands == 4

MaxCost == 1

MaxMemoLimit == 2

MaxMsaWords == 3

MaxWords == 3

MaxWordLen == 2

MaxColWords == 8

MaxMsaWordLen == 3

MaxWideCols == 2

MaxWideCands == 3

MaxWideTotal == 5

MaxEntries == 3

MaxPairWords == 2

MaxStackCost == 1

MaxLongWordLen == 3

----------------------------------------------------------------------------
(* Program constants and alphabet *)

Gap == "-"

None == "None"

\* depth_limit=None
NoDepthLimit == << >>

\* weights=None; a given list ws is <<ws>>
NoWeights == << >>

\* float("inf")
Inf == 1000000

\* default memo_size_limit of sample_tokens
DefaultMemoSizeLimit == 1000000

\* default memo_size_limit of recursive_search
SearchMemoSizeLimit == 200000

\* 1.0 in the fixed-point unit of weights and costs
One == 100

\* defaults of msa and pairwise_alignment
GapPenalty == -1

MatchScore == 2

MismatchPenalty == -1

\* The alphabet is read from output/alphabet.csv, which is not part of the
\* sources; the model takes two vowels and one consonant of it.
IPA_VOWELS == {"a", "e"}

IPA_CONSONANTS == {"b"}

Chars == {Gap} \cup IPA_VOWELS \cup IPA_CONSONANTS

----------------------------------------------------------------------------
(* Helpers *)

RECURSIVE SumSeq(_)
SumSeq(s) == IF s = <<>> THEN 0 ELSE Head(s) + SumSeq(Tail(s))

RECURSIVE MinSeq(_)
MinSeq(s) ==
    IF Len(s) = 1 THEN s[1]
    ELSE LET m == MinSeq(Tail(s)) IN IF s[1] <= m THEN s[1] ELSE m

\* float addition restricted to what the model needs: inf + x = inf
Plus(a, b) == IF a >= Inf \/ b >= Inf THEN Inf ELSE a + b

\* "".join(c for c in path if c != "-")
StripGaps(path) == SelectSeq(path, LAMBDA c : c # Gap)

----------------------------------------------------------------------------
(* gen_vocabulary.path_pronounciability_weight *)

RunViolationLoose(vowel_count, consonant_count) ==
    vowel_count > 2 \/ consonant_count > 2

\* the two run-length penalties applied after each character
RunViolation(vowel_count, consonant_count) ==
    vowel_count > 2 \/ consonant_count > 1

ScanViolatesAtEndOnly(fp, i, vowel_count, consonant_count, prev_vowel) ==
    /\ Len(fp) >= 2
    /\ fp[Len(fp)] \in IPA_CONSONANTS
    /\ fp[Len(fp) - 1] \in IPA_CONSONANTS

\* the loop over filtered_path; TRUE when it returns float("inf")
RECURSIVE ScanViolates(_, _, _, _, _)
ScanViolates(fp, i, vowel_count, consonant_count, prev_vowel) ==
    IF i > Len(fp) THEN FALSE
    ELSE LET char == fp[i] IN
        IF char \in IPA_VOWELS THEN
            IF prev_vowel = char THEN TRUE
            ELSE IF RunViolation(vowel_count + 1, 0) THEN TRUE
            ELSE ScanViolates(fp, i + 1, vowel_count + 1, 0, char)
        ELSE IF char \in IPA_CONSONANTS THEN
            IF RunViolation(0, consonant_count + 1) THEN TRUE
            ELSE ScanViolates(fp, i + 1, 0, consonant_count + 1, None)
        ELSE ScanViolates(fp, i + 1, 0, 0, None)

path_pronounciability_weight(path, path_weights) ==
    IF path = <<>> THEN 0
    ELSE LET filtered_path == StripGaps(path) IN
        IF filtered_path = <<>> THEN 0
        ELSE IF ScanViolates(filtered_path, 1, 0, 0, None) THEN Inf
        ELSE SumSeq(path_weights)

----------------------------------------------------------------------------
(* sampler.recursive_search *)

HashPathOfLastToken(path) == IF path = <<>> THEN <<>> ELSE <<path[Len(path)]>>

\* _hash_path: the digest of the joined path.  Tokens are single characters,
\* so the join is injective; the 64-bit digest is taken as collision-free.
HashPath(path) == path

\* len(memo) >= memo_size_limit
MemoFull(memo, limit) == Cardinality(DOMAIN memo) >= limit

\* use_memo = depth_limit is None or len(current_path) < depth_limit
\* (an Optional[int]: NoDepthLimit, or <<n>>)
UseMemo(dl, current_path) == dl = NoDepthLimit \/ Len(current_path) < dl[1]

PrunesAboveOnly(estimated_total, best) == estimated_total > best

\* estimated_total >= best_weight_so_far[0]
Prunes(estimated_total, best) == estimated_total >= best

AllGapsOmitted(path) == FALSE

\* all(c == "-" for c in current_path)
AllGaps(path) == \A i \in 1..Len(path) : path[i] = Gap

\* if current_weight < best_weight_so_far[0]: best_weight_so_far[0] = current_weight
Improves(current_weight, best) == current_weight < best

RecordLeaf(st, current_path, current_weight) ==
    IF Improves(current_weight, st.best)
    THEN [st EXCEPT !.best = current_weight,
                    !.recorded = Append(st.recorded, current_path)]
    ELSE st

\* memo[memo_key] = result, when use_memo
Memoize(st, use_memo, key, r) ==
    IF use_memo THEN [st EXCEPT !.memo = (key :> r) @@ st.memo] ELSE st

\* Search state threaded through the calls: best is best_weight_so_far[0],
\* memo the cache; hit notes that the size-limit return was taken and
\* recorded lists the complete paths that replaced the incumbent.
RECURSIVE recursive_search(_, _, _, _, _)
RECURSIVE SearchLoop(_, _, _, _, _, _)

recursive_search(position, current_path, current_weights, st, inp) ==
    LET memo_key == <<position, HashPath(current_path)>>
        current_weight ==
            IF current_path # <<>>
            THEN path_pronounciability_weight(current_path, current_weights)
            ELSE 0
        use_memo == UseMemo(inp.depth_limit, current_path)
        pruned == [path |-> <<>>, weight |-> Inf]
        here == [path |-> current_path, weight |-> current_weight]
        Return(r, s) == [path |-> r.path, weight |-> r.weight, st |-> s]
    IN
    IF memo_key \in DOMAIN st.memo
    THEN Return(st.memo[memo_key], st)
    ELSE IF MemoFull(st.memo, inp.memo_size_limit)
    THEN Return(here, [st EXCEPT !.hit = TRUE])
    ELSE IF position < Len(inp.min_future_weights)
            /\ Prunes(Plus(current_weight, inp.min_future_weights[position + 1]),
                      st.best)
    THEN Return(pruned, Memoize(st, use_memo, memo_key, pruned))
    ELSE IF position >= Len(inp.tokens)
    THEN IF AllGaps(current_path)
         THEN Return(pruned, Memoize(st, use_memo, memo_key, pruned))
         ELSE Return(here,
                     Memoize(RecordLeaf(st, current_path, current_weight),
                             use_memo, memo_key, here))
    ELSE LET l == SearchLoop(position, current_path, current_weights, 1,
                             [best_path |-> <<>>, best_weight |-> Inf, st |-> st],
                             inp)
             r == [path |-> l.best_path, weight |-> l.best_weight]
         IN Return(r, Memoize(l.st, use_memo, memo_key, r))

\* for token_idx in sorted_indices[position]: the k-th iteration onwards
SearchLoop(position, current_path, current_weights, k, acc, inp) ==
    IF k > Len(inp.sorted_indices[position + 1]) THEN acc
    ELSE LET token_idx == inp.sorted_indices[position + 1][k]
             token == inp.tokens[position + 1][token_idx]
             token_weight == inp.token_weights[position + 1][token_idx]
             sub == recursive_search(position + 1,
                                     Append(current_path, token),
                                     Append(current_weights, token_weight),
                                     acc.st, inp)
             better == sub.weight < acc.best_weight
         IN SearchLoop(position, current_path, current_weights, k + 1,
                       [best_path |-> IF better THEN sub.path ELSE acc.best_path,
                        best_weight |-> IF better THEN sub.weight ELSE acc.best_weight,
                        st |-> sub.st],
                       inp)

----------------------------------------------------------------------------
(* sampler.sample_tokens *)

\* sorted(range(len(ws)), key=lambda idx: ws[idx]): stable, ascending
RECURSIVE InsertSorted(_, _, _)
InsertSorted(sorted, idx, ws) ==
    IF sorted = <<>> THEN <<idx>>
    ELSE IF ws[Head(sorted)] <= ws[idx]
         THEN <<Head(sorted)>> \o InsertSorted(Tail(sorted), idx, ws)
         ELSE <<idx>> \o sorted

RECURSIVE SortFrom(_, _, _)
SortFrom(sorted, idx, ws) ==
    IF idx > Len(ws) THEN sorted
    ELSE SortFrom(InsertSorted(sorted, idx, ws), idx + 1, ws)

SortedIndices(ws) == SortFrom(<<>>, 1, ws)

\* min_future_weights[position] = min(token_weights[position]) + min_future_weights[position + 1]
RECURSIVE MinFutureFrom(_, _)
MinFutureFrom(tw, p) ==
    IF p > Len(tw) THEN 0 ELSE MinSeq(tw[p]) + MinFutureFrom(tw, p + 1)

MinFutureWeights(tw) == [p \in 1..(Len(tw) + 1) |-> MinFutureFrom(tw, p)]

Returned(s, path, weight, st) ==
    [kind |-> "returned", value |-> s, path |-> path, weight |-> weight,
     hit |-> st.hit, memo |-> st.memo, best |-> st.best, recorded |-> st.recorded]

Raised(err, st) ==
    [kind |-> "raised", value |-> err, path |-> <<>>, weight |-> Inf,
     hit |-> st.hit, memo |-> st.memo, best |-> st.best, recorded |-> st.recorded]

LeftoverSearch ==
    IF result.kind = "none"
    THEN [best |-> Inf, memo |-> << >>, hit |-> FALSE, recorded |-> << >>]
    ELSE [best |-> result.best, memo |-> result.memo, hit |-> FALSE, recorded |-> << >>]

\* best_weight_so_far = [float("inf")]; memo = {}
FreshSearch == [best |-> Inf, memo |-> << >>, hit |-> FALSE, recorded |-> << >>]

FinalChecksDisabled(optimal_path, optimal_weight, K) == TRUE

\* the three assertions after the search
FinalChecks(optimal_path, optimal_weight, K) ==
    optimal_path # <<>> /\ Len(optimal_path) = K /\ optimal_weight < Inf

sample_tokens(toks, tw, limit, dl) ==
    IF Len(toks) # Len(tw) THEN Raised("AssertionError", FreshSearch)
    ELSE IF toks = <<>> \/ toks[1] = <<>> THEN Returned(<<>>, <<>>, 0, FreshSearch)
    ELSE IF \E p \in 1..Len(tw) : tw[p] = <<>> THEN Raised("ValueError", FreshSearch)
    ELSE LET inp == [tokens |-> toks, token_weights |-> tw,
                     sorted_indices |-> [p \in 1..Len(tw) |-> SortedIndices(tw[p])],
                     min_future_weights |-> MinFutureWeights(tw),
                     memo_size_limit |-> limit, depth_limit |-> dl]
             r == recursive_search(0, <<>>, <<>>, FreshSearch, inp)
         IN IF FinalChecks(r.path, r.weight, Len(toks))
            THEN Returned(StripGaps(r.path), r.path, r.weight, r.st)
            ELSE Raised("AssertionError", r.st)

----------------------------------------------------------------------------
(* Direct calls of sample_tokens on bounded candidate lists *)

CostVals == (0 - MaxCost)..MaxCost

Distinct(s) == \A i, j \in 1..Len(s) : i # j => s[i] # s[j]

\* one column: distinct candidate characters, each with a cost
ColumnSet ==
    UNION {{[chars |-> c, costs |-> w] :
                c \in {s \in [1..n -> Chars] : Distinct(s)},
                w \in [1..n -> CostVals]} : n \in 0..MaxCands}

RECURSIVE TotalCands(_)
TotalCands(cols) ==
    IF cols = <<>> THEN 0 ELSE Len(Head(cols).chars) + TotalCands(Tail(cols))

SampleInputs ==
    UNION {{cols \in [1..K -> ColumnSet] : TotalCands(cols) <= MaxTotalCands} :
               K \in 0..MaxCols}

MemoLimits == (0..MaxMemoLimit) \cup {DefaultMemoSizeLimit}

DepthLimits == {NoDepthLimit}

NoResult == [kind |-> "none"]

\* values of the variables a specification does not use
SampleIdle ==
    /\ tokens = <<>> /\ token_weights = <<>> /\ memo_size_limit = DefaultMemoSizeLimit
    /\ depth_limit = NoDepthLimit /\ result = NoResult

MsaIdle == words = <<>> /\ aligned = <<>> /\ seq_idx = 0 /\ columns = <<>>

BaryIdle == weights = NoWeights /\ level = 0 /\ attempts = <<>> /\ bary = <<>> /\ error = None

ColumnIdle == counter = <<>> /\ col_n = 0 /\ cands = <<>>

TokenIdle ==
    /\ caller = None /\ assoc_words = <<>>
    /\ int_ipa_token = <<>> /\ int_orth_token = <<>>

NoReturn == [kind |-> "none"]

StackIdle ==
    /\ stack = <<>> /\ search_memo = << >> /\ ret = NoReturn
    /\ entered = <<>> /\ memo_hits = 0

SearchIdle == sorted_indices = <<>> /\ best_weight_so_far = Inf /\ StackIdle

PairIdle == comps = <<>>

CallIdle == TokenIdle /\ SearchIdle /\ PairIdle

InitSample ==
    /\ pc = "ready"
    /\ \E cols \in SampleInputs :
          /\ tokens = [p \in 1..Len(cols) |-> cols[p].chars]
          /\ token_weights = [p \in 1..Len(cols) |-> cols[p].costs]
    /\ memo_size_limit \in MemoLimits
    /\ depth_limit \in DepthLimits
    /\ result = NoResult
    /\ MsaIdle /\ BaryIdle /\ ColumnIdle /\ CallIdle

\* one call sample_tokens(tokens, token_weights, path_pronounciability_weight,
\* memo_size_limit, depth_limit), to its return or its exception
SampleTokens ==
    /\ pc = "ready"
    /\ result' = sample_tokens(tokens, token_weights, memo_size_limit, depth_limit)
    /\ pc' = "done"
    /\ UNCHANGED <<tokens, token_weights, memo_size_limit, depth_limit>>
    /\ UNCHANGED <<msaVars, baryVars, columnVars, callVars>>

NextSample == SampleTokens

SpecSample == InitSample /\ [][NextSample]_vars

\* one column of up to n distinct candidates, none missing
WideColumnSet ==
    UNION {{[chars |-> c, costs |-> w] :
                c \in {s \in [1..n -> Chars] : Distinct(s)},
                w \in [1..n -> CostVals]} : n \in 1..MaxWideCands}

\* sample_tokens with its default limits on fewer, wider columns
InitWide ==
    /\ pc = "ready"
    /\ \E K \in 1..MaxWideCols : \E cols \in [1..K -> WideColumnSet] :
          /\ TotalCands(cols) <= MaxWideTotal
          /\ tokens = [p \in 1..K |-> cols[p].chars]
          /\ token_weights = [p \in 1..K |-> cols[p].costs]
    /\ memo_size_limit = DefaultMemoSizeLimit
    /\ depth_limit = NoDepthLimit
    /\ result = NoResult
    /\ MsaIdle /\ BaryIdle /\ ColumnIdle /\ CallIdle

SpecWide == InitWide /\ [][NextSample]_vars

----------------------------------------------------------------------------
(* Reference notions for the claims about sample_tokens *)

\* every way of taking one candidate index per column
CompletePaths(toks) ==
    LET widest == IF MaxCands >= MaxWideCands THEN MaxCands ELSE MaxWideCands
    IN {f \in [1..Len(toks) -> 1..widest] : \A p \in 1..Len(toks) : f[p] <= Len(toks[p])}

PathOf(f) == [p \in 1..Len(tokens) |-> tokens[p][f[p]]]

WeightsOf(f) == [p \in 1..Len(tokens) |-> token_weights[p][f[p]]]

CostOf(f) == path_pronounciability_weight(PathOf(f), WeightsOf(f))

OnlyGaps(path) == \A i \in 1..Len(path) : path[i] = "-"

\* a complete path the search may return: finite cost, not only gaps
Eligible(f) == CostOf(f) < Inf /\ ~OnlyGaps(PathOf(f))

IsVowel(c) == c \in {"a", "e", "i", "o", "u"}

IsConsonant(c) == c \in IPA_CONSONANTS

\* the three phonotactic rules, stated on a gap-free string
Pronounceable(s) ==
    /\ \A i \in 1..(Len(s) - 2) : ~(IsVowel(s[i]) /\ IsVowel(s[i + 1]) /\ IsVowel(s[i + 2]))
    /\ \A i \in 1..(Len(s) - 1) : ~(IsConsonant(s[i]) /\ IsConsonant(s[i + 1]))
    /\ \A i \in 1..(Len(s) - 1) : ~(IsVowel(s[i]) /\ s[i] = s[i + 1])

SearchRan == tokens # <<>> /\ tokens[1] # <<>>

Outcome(r) == <<r.kind, r.value>>

\* C1: when the memo size limit is not reached, sample_tokens returns the
\* gap-stripped form of a complete path whose cost is minimal among the
\* complete paths of finite cost holding a non-gap character, and it returns
\* one whenever such a path exists.
C1_ReturnsMinimalCostPath ==
    (pc = "done" /\ SearchRan /\ ~result.hit) =>
        /\ (\E f \in CompletePaths(tokens) : Eligible(f)) => result.kind = "returned"
        /\ result.kind = "returned" =>
              \E g \in CompletePaths(tokens) :
                  /\ PathOf(g) = result.path
                  /\ result.value = StripGaps(result.path)
                  /\ \A f \in CompletePaths(tokens) : Eligible(f) => CostOf(g) <= CostOf(f)

\* C2: with every memo_size_limit the call ends as it does with the default,
\* never-reached limit: the same string, or the same failure.
C2_SameOutcomeForEveryLimit ==
    pc = "done" =>
        Outcome(result) =
            Outcome(sample_tokens(tokens, token_weights, DefaultMemoSizeLimit, depth_limit))

\* C5: whatever the memo_size_limit, a returned string comes from a complete
\* path of finite cost, and has no run of three vowels, no two consecutive
\* consonants and no two identical consecutive vowels.
C5_ReturnedStringIsValid ==
    (pc = "done" /\ result.kind = "returned") =>
        /\ SearchRan =>
              \E g \in CompletePaths(tokens) : PathOf(g) = result.path /\ CostOf(g) < Inf
        /\ result.weight < Inf
        /\ result.value = StripGaps(result.path)
        /\ Pronounceable(result.value)

C5_Witness ==
    /\ pc = "done" /\ result.kind = "returned" /\ result.hit
    /\ Len(result.value) = 3
    /\ \E f \in CompletePaths(tokens) : CostOf(f) = Inf

NothingFeasible ==
    \A f \in CompletePaths(tokens) :
        ~Pronounceable(StripGaps(PathOf(f))) \/ OnlyGaps(PathOf(f))

\* C9 as stated: if every complete path is infeasible or only gaps,
\* sample_tokens raises and returns no string.
C9_RaisesWhenNothingFeasible ==
    (pc = "done" /\ NothingFeasible) => result.kind = "raised"

\* C9 amended: the same, for a column list whose first column has at least
\* one candidate.
C9_RaisesWhenSearchFindsNothing ==
    (pc = "done" /\ SearchRan /\ NothingFeasible) => result.kind = "raised"

\* the search ran over several columns, every complete path breaks a rule,
\* and the call raised
C9_Witness ==
    /\ pc = "done" /\ SearchRan /\ NothingFeasible /\ result.kind = "raised"
    /\ Len(tokens) >= 2
    /\ \E f, g \in CompletePaths(tokens) :
          f # g /\ ~Pronounceable(StripGaps(PathOf(f)))

----------------------------------------------------------------------------
(* msa.pairwise_alignment *)

Max3WithoutInsert(a, b, c) == IF a >= b THEN a ELSE b

\* max(match, delete, insert)
Max3(a, b, c) ==
    IF a >= b /\ a >= c THEN a ELSE IF b >= c THEN b ELSE c

PairScoreHarshMismatch(c1, c2, match_score, mismatch_penalty) ==
    IF c1 = c2 THEN match_score ELSE mismatch_penalty - 2

\* match_score if s1[i - 1] == s2[j - 1] else mismatch_penalty
PairScore(c1, c2, match_score, mismatch_penalty) ==
    IF c1 = c2 THEN match_score ELSE mismatch_penalty

\* Row i of the DP matrix from row i - 1; a row is the sequence of dp[i][0..n],
\* so dp[i][j] is row[j + 1].
RECURSIVE FillRow(_, _, _, _, _, _)
FillRow(row, prev, i, s1, s2, p) ==
    LET j == Len(row) IN
    IF j > Len(s2) THEN row
    ELSE LET match == prev[j] + PairScore(s1[i], s2[j], p.match_score, p.mismatch_penalty)
             delete == prev[j + 1] + p.gap_penalty
             insert == row[j] + p.gap_penalty
         IN FillRow(Append(row, Max3(match, delete, insert)), prev, i, s1, s2, p)

\* the matrix as the sequence of its rows 0..m: dp[i][j] is DpMatrix[i + 1][j + 1]
RECURSIVE FillMatrix(_, _, _, _)
FillMatrix(rows, s1, s2, p) ==
    LET i == Len(rows) IN
    IF i > Len(s1) THEN rows
    ELSE FillMatrix(Append(rows, FillRow(<<i * p.gap_penalty>>, rows[i], i, s1, s2, p)),
                    s1, s2, p)

DpMatrix(s1, s2, p) ==
    FillMatrix(<<[j \in 1..(Len(s2) + 1) |-> (j - 1) * p.gap_penalty]>>, s1, s2, p)

\* which move the traceback takes at cell (i, j): diagonal first, then up,
\* otherwise left
TraceMove(dp, s1, s2, i, j, p) ==
    IF i > 0 /\ j > 0
       /\ dp[i + 1][j + 1] =
            dp[i][j] + PairScore(s1[i], s2[j], p.match_score, p.mismatch_penalty)
    THEN "diag"
    ELSE IF i > 0 /\ dp[i + 1][j + 1] = dp[i][j + 1] + p.gap_penalty
    THEN "up"
    ELSE "left"

\* Under "left" with j = 0 the code reads s2[-1]; the matrix of the recurrence
\* never leads there (dp[i][0] = dp[i-1][0] + gap_penalty takes "up").
RECURSIVE Traceback(_, _, _, _, _, _, _, _)
Traceback(dp, s1, s2, i, j, aligned1, aligned2, p) ==
    IF ~(i > 0 \/ j > 0) THEN <<aligned1, aligned2>>
    ELSE LET move == TraceMove(dp, s1, s2, i, j, p) IN
        IF move = "diag"
        THEN Traceback(dp, s1, s2, i - 1, j - 1,
                       <<s1[i]>> \o aligned1, <<s2[j]>> \o aligned2, p)
        ELSE IF move = "up"
        THEN Traceback(dp, s1, s2, i - 1, j,
                       <<s1[i]>> \o aligned1, <<Gap>> \o aligned2, p)
        ELSE Traceback(dp, s1, s2, i, j - 1,
                       <<Gap>> \o aligned1,
                       <<IF j > 0 THEN s2[j] ELSE s2[Len(s2)]>> \o aligned2, p)

pairwise_alignment(s1, s2, gap_penalty, match_score, mismatch_penalty) ==
    LET p == [gap_penalty |-> gap_penalty, match_score |-> match_score,
              mismatch_penalty |-> mismatch_penalty]
    IN Traceback(DpMatrix(s1, s2, p), s1, s2, Len(s1), Len(s2), <<>>, <<>>, p)

----------------------------------------------------------------------------
(* msa.propagate_gaps_to_all and msa.msa *)

MinOf(a, b) == IF a <= b THEN a ELSE b

InsertGapAtEnd(s, idx) == Append(s, Gap)

InsertGapAtOverwriting(s, idx) ==
    LET k == MinOf(idx, Len(s)) IN
    SubSeq(s, 1, k) \o <<Gap>> \o SubSeq(s, k + 2, Len(s))

\* s[:idx] + "-" + s[idx:], with Python's clamping of slices
InsertGapAt(s, idx) ==
    LET k == MinOf(idx, Len(s)) IN
    SubSeq(s, 1, k) \o <<Gap>> \o SubSeq(s, k + 1, Len(s))

\* for c in aligned_consensus, from its (idx + 1)-th character on
RECURSIVE PropagateFrom(_, _, _)
PropagateFrom(aligned_seqs, aligned_consensus, idx) ==
    IF idx >= Len(aligned_consensus) THEN aligned_seqs
    ELSE IF aligned_consensus[idx + 1] = Gap
    THEN PropagateFrom([k \in 1..Len(aligned_seqs) |-> InsertGapAt(aligned_seqs[k], idx)],
                       aligned_consensus, idx + 1)
    ELSE PropagateFrom(aligned_seqs, aligned_consensus, idx + 1)

propagate_gaps_to_all(aligned_seqs, aligned_consensus) ==
    PropagateFrom(aligned_seqs, aligned_consensus, 0)

RECURSIVE MaxLen(_)
MaxLen(seqs) ==
    IF seqs = <<>> THEN 0
    ELSE LET m == MaxLen(Tail(seqs)) IN IF Len(Head(seqs)) > m THEN Len(Head(seqs)) ELSE m

\* chars = [s[i] if i < len(s) else "-" for s in aligned], i counted from 1 here
ColumnChars(al, i) ==
    [k \in 1..Len(al) |-> IF i <= Len(al[k]) THEN al[k][i] ELSE Gap]

ConsensusCharOfFirstRow(chars) == chars[1]

\* filtered[0] if filtered else "-"
ConsensusChar(chars) ==
    LET filtered == SelectSeq(chars, LAMBDA c : c # Gap) IN
    IF filtered # <<>> THEN filtered[1] ELSE Gap

Consensus(al) == [i \in 1..MaxLen(al) |-> ConsensusChar(ColumnChars(al, i))]

\* aligned[i] += "-" * (maxlen - len(aligned[i]))
PadRight(s, maxlen) == s \o [k \in 1..(maxlen - Len(s)) |-> Gap]

PadAll(al) == [k \in 1..Len(al) |-> PadRight(al[k], MaxLen(al))]

\* one iteration of "for seq in sequences[1:]"
MsaStep(al, seq) ==
    LET a == pairwise_alignment(Consensus(al), seq, GapPenalty, MatchScore, MismatchPenalty)
    IN PadAll(Append(propagate_gaps_to_all(al, a[1]), a[2]))

RECURSIVE MsaFrom(_, _, _)
MsaFrom(al, sequences, k) ==
    IF k > Len(sequences) THEN al ELSE MsaFrom(MsaStep(al, sequences[k]), sequences, k + 1)

\* the whole of msa(sequences), for a non-empty list
msa(sequences) == MsaFrom(<<sequences[1]>>, sequences, 2)

\* the length of the shortest sequence, where zip stops
RECURSIVE MinLen(_)
MinLen(seqs) ==
    IF Len(seqs) = 1 THEN Len(seqs[1])
    ELSE MinOf(Len(Head(seqs)), MinLen(Tail(seqs)))

TransposeShort(al) ==
    IF al = <<>> THEN <<>>
    ELSE [i \in 1..(MinLen(al) - 1) |-> [k \in 1..Len(al) |-> al[k][i]]]

\* list(zip(*aligned)): as many columns as the shortest sequence has characters
Transpose(al) ==
    IF al = <<>> THEN <<>>
    ELSE [i \in 1..MinLen(al) |-> [k \in 1..Len(al) |-> al[k][i]]]

----------------------------------------------------------------------------
(* align_words_list and msa as steps: one action per loop iteration *)

Letters == IPA_VOWELS \cup IPA_CONSONANTS

WordsUpTo(alphabet, n) == UNION {[1..k -> alphabet] : k \in 0..n}

WordListsUpTo(alphabet, n, len) == UNION {[1..k -> WordsUpTo(alphabet, len)] : k \in 0..n}

\* align_words_list up to the first line of msa: an empty list raises
\* ValueError, otherwise aligned = [sequences[0]]
AlignStart ==
    /\ pc = "align"
    /\ IF words = <<>>
       THEN /\ error' = "ValueError"
            /\ pc' = "raised"
            /\ UNCHANGED <<aligned, seq_idx>>
       ELSE /\ aligned' = <<words[1]>>
            /\ seq_idx' = 2
            /\ pc' = "msa"
            /\ UNCHANGED error
    /\ UNCHANGED <<words, columns, weights, level, attempts, bary>>
    /\ UNCHANGED <<sampleVars, columnVars, callVars>>

\* the body of "for seq in sequences[1:]", padding included
MsaAddWord ==
    /\ pc = "msa"
    /\ seq_idx <= Len(words)
    /\ aligned' = MsaStep(aligned, words[seq_idx])
    /\ seq_idx' = seq_idx + 1
    /\ UNCHANGED <<pc, words, columns, baryVars, sampleVars, columnVars, callVars>>

\* msa returns and align_words_list transposes its result
MsaReturn ==
    /\ pc = "msa"
    /\ seq_idx > Len(words)
    /\ columns' = Transpose(aligned)
    /\ pc' = "aligned"
    /\ UNCHANGED <<words, aligned, seq_idx, baryVars, sampleVars, columnVars, callVars>>

InitMsa ==
    /\ pc = "align"
    /\ words \in WordListsUpTo(Letters, MaxMsaWords, MaxMsaWordLen)
    /\ aligned = <<>> /\ seq_idx = 0 /\ columns = <<>>
    /\ SampleIdle /\ BaryIdle /\ ColumnIdle /\ CallIdle

NextMsa == AlignStart \/ MsaAddWord \/ MsaReturn

SpecMsa == InitMsa /\ [][NextMsa]_vars

HasGap(s) == \E i \in 1..Len(s) : s[i] = Gap

\* C3: for one or more gap-free words msa returns one aligned sequence per
\* word, in input order, and deleting the gaps of the i-th sequence gives the
\* i-th word.
C3_StrippingGapsRestoresWords ==
    pc = "aligned" =>
        /\ Len(aligned) = Len(words)
        /\ \A i \in 1..Len(words) : StripGaps(aligned[i]) = words[i]

\* three words aligned, the last one opening a gap inside an earlier sequence
C3_Witness ==
    /\ pc = "aligned" /\ Len(words) = 3
    /\ HasGap(aligned[1]) /\ aligned[1][Len(aligned[1])] # Gap
    /\ HasGap(aligned[3])

\* C4: after each word added and in the result all aligned sequences have one
\* length, and the transposition keeps every character of every sequence.
C4_AlignedSequencesShareLength ==
    /\ pc \in {"msa", "aligned"} =>
          \A i, j \in 1..Len(aligned) : Len(aligned[i]) = Len(aligned[j])
    /\ pc = "aligned" =>
          /\ Len(columns) = MaxLen(aligned)
          /\ \A k \in 1..Len(aligned) : \A i \in 1..Len(aligned[k]) :
                columns[i][k] = aligned[k][i]

\* words of different lengths went through the loop and were transposed
C4_Witness ==
    /\ pc = "aligned" /\ Len(words) = 3
    /\ Len(words[1]) < Len(words[2]) /\ Len(words[3]) < Len(words[1])
    /\ Len(columns) > Len(words[2])

\* the number of positions in which two words of one length differ
Differences(w1, w2) == Cardinality({i \in 1..Len(w1) : w1[i] # w2[i]})

\* words of one length, each at most one substitution away from the first
OneSubstitutionApart ==
    /\ words # <<>>
    /\ \A k \in 1..Len(words) :
          /\ Len(words[k]) = Len(words[1])
          /\ Differences(words[1], words[k]) <= 1

\* C21: for words of one length L that each differ from the first word in at
\* most one position, the alignment has no gap: exactly L columns, column i
\* holding the i-th characters of the words in input order.
C21_SubstitutionsAlignWithoutGaps ==
    (pc = "aligned" /\ OneSubstitutionApart) =>
        /\ Len(columns) = Len(words[1])
        /\ \A i \in 1..Len(columns) :
              columns[i] = [k \in 1..Len(words) |-> words[k][i]]

\* three different words of three letters, as cat, bat and rat, were aligned
C21_Witness ==
    /\ pc = "aligned" /\ OneSubstitutionApart
    /\ Len(words) = 3 /\ Len(words[1]) = 3
    /\ words[1] # words[2] /\ words[1] # words[3] /\ words[2] # words[3]
    /\ Len(columns) = 3

\* the characters of s outside the positions G, in order
Outside(s, G) ==
    [j \in 1..(Len(s) - Cardinality(G \cap (1..Len(s)))) |->
        s[CHOOSE i \in 1..Len(s) :
              i \notin G /\ Cardinality({h \in 1..i : h \notin G}) = j]]

\* the positions at which the consensus, aligned with the next word, holds a gap
ConsensusGaps ==
    LET a == pairwise_alignment(Consensus(aligned), words[seq_idx],
                                GapPenalty, MatchScore, MismatchPenalty)
    IN {g \in 1..Len(a[1]) : a[1][g] = "-"}

\* C24: a step of msa that adds a word puts a gap into every sequence aligned
\* before at exactly the positions where the aligned consensus holds a gap,
\* and changes nothing else in them; so characters that shared a column
\* before the step share one after it.
C24_GapsPropagatedToEverySequence ==
    [][(pc = "msa" /\ seq_idx' = seq_idx + 1) =>
          /\ Len(aligned') = Len(aligned) + 1
          /\ \A k \in 1..Len(aligned) :
                /\ Len(aligned'[k]) = Len(aligned[k]) + Cardinality(ConsensusGaps)
                /\ \A g \in ConsensusGaps : aligned'[k][g] = "-"
                /\ Outside(aligned'[k], ConsensusGaps) = aligned[k]
          /\ \A k, l \in 1..Len(aligned) : \A i \in 1..Len(aligned[k]) :
                \E j \in 1..Len(aligned'[k]) :
                    aligned'[k][j] = aligned[k][i] /\ aligned'[l][j] = aligned[l][i]
      ]_vars

\* the third word opened a gap inside the two sequences aligned before it
C24_Witness ==
    /\ pc = "msa" /\ seq_idx = 4 /\ Len(aligned) = 3
    /\ \E g \in 1..(Len(aligned[1]) - 1) :
          /\ aligned[1][g] = "-" /\ aligned[2][g] = "-" /\ aligned[3][g] # "-"
          /\ g > 1
          /\ aligned[1][g - 1] # "-" /\ aligned[1][g + 1] # "-"

----------------------------------------------------------------------------
(* Direct calls of pairwise_alignment with its default scores: words holds  *)
(* the two arguments, aligned the two strings returned                      *)

InitPairwise ==
    /\ pc = "pairwise"
    /\ words \in [1..2 -> WordsUpTo(Letters, MaxMsaWordLen)]
    /\ aligned = <<>> /\ seq_idx = 0 /\ columns = <<>>
    /\ SampleIdle /\ BaryIdle /\ ColumnIdle /\ CallIdle

\* one call pairwise_alignment(s1, s2), to its return
PairwiseAlign ==
    /\ pc = "pairwise"
    /\ LET a == pairwise_alignment(words[1], words[2], GapPenalty, MatchScore, MismatchPenalty)
       IN aligned' = <<a[1], a[2]>>
    /\ pc' = "paired"
    /\ UNCHANGED <<words, seq_idx, columns>>
    /\ UNCHANGED <<sampleVars, baryVars, columnVars, callVars>>

NextPairwise == PairwiseAlign

SpecPairwise == InitPairwise /\ [][NextPairwise]_vars

\* the score of one column of an alignment
ColumnScore(c1, c2) ==
    IF c1 = "-" \/ c2 = "-" THEN -1 ELSE IF c1 = c2 THEN 2 ELSE -1

\* the total score of two aligned strings of one length
AlignmentScore(a1, a2) == SumSeq([i \in 1..Len(a1) |-> ColumnScore(a1[i], a2[i])])

\* A global alignment of s1 and s2 as its sequence of columns: "both" takes
\* the next character of each, "first" the next of s1 against a gap,
\* "second" the next of s2 against a gap.
ColumnKinds == {"both", "first", "second"}

Taken(a, i, kinds) == Cardinality({k \in 1..i : a[k] \in kinds})

GlobalAlignments(s1, s2) ==
    UNION {{a \in [1..n -> ColumnKinds] :
                /\ Taken(a, n, {"both", "first"}) = Len(s1)
                /\ Taken(a, n, {"both", "second"}) = Len(s2)} :
           n \in 0..(Len(s1) + Len(s2))}

ScoreOf(a, s1, s2) ==
    SumSeq([i \in 1..Len(a) |->
              IF a[i] = "both"
              THEN ColumnScore(s1[Taken(a, i, {"both", "first"})],
                               s2[Taken(a, i, {"both", "second"})])
              ELSE -1])

\* C23: pairwise_alignment returns two strings of one length, with no column
\* of two gaps, whose gap-stripped forms are s1 and s2, and whose score (match
\* +2, mismatch -1, gap -1) is the greatest among all global alignments.
C23_PairwiseAlignmentIsOptimal ==
    pc = "paired" =>
        /\ Len(aligned[1]) = Len(aligned[2])
        /\ \A i \in 1..Len(aligned[1]) : ~(aligned[1][i] = "-" /\ aligned[2][i] = "-")
        /\ SelectSeq(aligned[1], LAMBDA c : c # "-") = words[1]
        /\ SelectSeq(aligned[2], LAMBDA c : c # "-") = words[2]
        /\ \A a \in GlobalAlignments(words[1], words[2]) :
              ScoreOf(a, words[1], words[2]) <= AlignmentScore(aligned[1], aligned[2])

\* two words of three letters aligned with a gap in each and a match between
C23_Witness ==
    /\ pc = "paired" /\ Len(words[1]) = 3 /\ Len(words[2]) = 3
    /\ HasGap(aligned[1]) /\ HasGap(aligned[2])
    /\ \E i \in 1..Len(aligned[1]) : aligned[1][i] = aligned[2][i]

----------------------------------------------------------------------------
(* str_barycenter.compute_bary: the candidates of one column *)

\* [(3, 0.05), (5, 0.01), (7, 0.0)], the cutoffs in units of One
HEURISTICS == << <<3, 5>>, <<5, 1>>, <<7, 0>> >>

\* A Counter is the sequence of its items <<char, val>> in insertion order.
CounterKeys(c) == [i \in 1..Len(c) |-> c[i][1]]

\* counter[char] += weight
CounterAdd(c, char, weight) ==
    IF \E i \in 1..Len(c) : c[i][1] = char
    THEN [i \in 1..Len(c) |-> IF c[i][1] = char THEN <<char, c[i][2] + weight>> ELSE c[i]]
    ELSE Append(c, <<char, weight>>)

\* for char, weight in zip(chars, weights): counter[char] += weight
RECURSIVE CountFrom(_, _, _, _)
CountFrom(c, chars, ws, i) ==
    IF i > MinOf(Len(chars), Len(ws)) THEN c
    ELSE CountFrom(CounterAdd(c, chars[i], ws[i]), chars, ws, i + 1)

CounterOf(chars, ws) == CountFrom(<<>>, chars, ws, 1)

\* Counter.most_common(n): the n items of largest value, equal values in
\* insertion order (heapq.nlargest is sorted(..., reverse=True)[:n])
RECURSIVE InsertByValue(_, _)
InsertByValue(sorted, item) ==
    IF sorted = <<>> THEN <<item>>
    ELSE IF Head(sorted)[2] >= item[2]
         THEN <<Head(sorted)>> \o InsertByValue(Tail(sorted), item)
         ELSE <<item>> \o sorted

RECURSIVE SortByValue(_, _, _)
SortByValue(sorted, c, i) ==
    IF i > Len(c) THEN sorted ELSE SortByValue(InsertByValue(sorted, c[i]), c, i + 1)

MostCommon(c, n) ==
    LET all == SortByValue(<<>>, c, 1) IN SubSeq(all, 1, MinOf(n, Len(all)))

AtOrAboveCutoff(val, min_val) == val >= min_val

\* if val > min_val
AboveCutoff(val, min_val) == val > min_val

CandidateCostInverted(val) == val

\* 1 - val, the cost of a candidate of aggregated weight val
CandidateCost(val) == One - val

\* the branch "if heuristic": the head of most_common(n) always, the others
\* when above the cutoff
HeuristicCandidates(c, heuristic) ==
    LET most_common == MostCommon(c, heuristic[1])
        kept == <<most_common[1]>> \o
                SelectSeq(Tail(most_common), LAMBDA it : AboveCutoff(it[2], heuristic[2]))
    IN [chars |-> [i \in 1..Len(kept) |-> kept[i][1]],
        weights |-> [i \in 1..Len(kept) |-> CandidateCost(kept[i][2])]]

\* the branch "else": every key of the counter
AllCandidates(c) ==
    [chars |-> CounterKeys(c), weights |-> [i \in 1..Len(c) |-> CandidateCost(c[i][2])]]

\* truth value of a ladder entry: a non-empty tuple is true
Truthy(heuristic) == Len(heuristic) > 0

ColumnCandidates(c, heuristic) ==
    IF Truthy(heuristic) THEN HeuristicCandidates(c, heuristic) ELSE AllCandidates(c)

\* compute_bary(aligned, weights, heuristic): the candidate lists of every
\* column, then sample_tokens with its default limits
compute_bary(cols, ws, heuristic) ==
    LET cs == [i \in 1..Len(cols) |-> ColumnCandidates(CounterOf(cols[i], ws), heuristic)]
        toks == [i \in 1..Len(cols) |-> cs[i].chars]
        tw == [i \in 1..Len(cols) |-> cs[i].weights]
    IN [tokens |-> toks, token_weights |-> tw,
        result |-> sample_tokens(toks, tw, DefaultMemoSizeLimit, NoDepthLimit)]

----------------------------------------------------------------------------
(* One column counted pair by pair, then its candidates at one level *)

\* word weights of a counted column: below, and between, the cutoffs
ColWeightVals == {1, 3}

ColLetters == <<"a", "b", "c", "d", "e", "f", "g", "h", "i">>

\* Columns are taken up to the naming of their letters: a letter new to the
\* column is the next unused one of ColLetters; the gap may come at any time.
NextColChars(c) ==
    LET keys == {c[i][1] : i \in 1..Len(c)}
        used == Cardinality(keys \ {Gap})
    IN keys \cup {Gap} \cup (IF used < Len(ColLetters) THEN {ColLetters[used + 1]} ELSE {})

InitColumn ==
    /\ pc = "count"
    /\ counter = <<>> /\ col_n = 0 /\ cands = <<>>
    /\ SampleIdle /\ MsaIdle /\ BaryIdle /\ CallIdle

\* one iteration of the counting loop of compute_bary
CountPair ==
    /\ pc = "count"
    /\ col_n < MaxColWords
    /\ \E char \in NextColChars(counter), weight \in ColWeightVals :
          counter' = CounterAdd(counter, char, weight)
    /\ col_n' = col_n + 1
    /\ UNCHANGED <<pc, cands, sampleVars, msaVars, baryVars, callVars>>

\* the candidates of the counted column at one level of the ladder
SelectCandidates ==
    /\ pc = "count"
    /\ col_n >= 1
    /\ \E lvl \in 1..Len(HEURISTICS) :
          cands' = [level |-> lvl, c |-> ColumnCandidates(counter, HEURISTICS[lvl])]
    /\ pc' = "selected"
    /\ UNCHANGED <<counter, col_n, sampleVars, msaVars, baryVars, callVars>>

NextColumn == CountPair \/ SelectCandidates

SpecColumn == InitColumn /\ [][NextColumn]_vars

InSeq(x, s) == \E i \in 1..Len(s) : s[i] = x

\* C10: at the last level of the ladder every character of the column
\* carried by a word of positive weight, the gap included, is a candidate,
\* however many distinct characters the column has.
C10_LastLevelKeepsEveryCharacter ==
    (pc = "selected" /\ cands.level = Len(HEURISTICS)) =>
        \A i \in 1..Len(counter) : InSeq(counter[i][1], cands.c.chars)

\* the characters of the counted column and their aggregated weights
ColumnKeys == {counter[i][1] : i \in 1..Len(counter)}

ValueOf(ch) == counter[CHOOSE i \in 1..Len(counter) : counter[i][1] = ch][2]

\* ch is among the k heaviest however ties are broken / for some tie-break
SurelyInTop(ch, k) == Cardinality({d \in ColumnKeys \ {ch} : ValueOf(d) >= ValueOf(ch)}) < k

PossiblyInTop(ch, k) == Cardinality({d \in ColumnKeys : ValueOf(d) > ValueOf(ch)}) < k

CandidatesCostOneMinusWeight ==
    /\ Len(cands.c.weights) = Len(cands.c.chars)
    /\ \A i \in 1..Len(cands.c.chars) :
          /\ cands.c.chars[i] \in ColumnKeys
          /\ cands.c.weights[i] = One - ValueOf(cands.c.chars[i])
          /\ PossiblyInTop(cands.c.chars[i], HEURISTICS[cands.level][1])
          /\ \A j \in 1..Len(cands.c.chars) : cands.c.chars[j] = cands.c.chars[i] => j = i

\* C25: at a level (k, cutoff) the candidates of a column are among its k
\* heaviest characters, each costing 1 minus its aggregated weight; a
\* character at or above the cutoff that ranks in the top k is a candidate,
\* and a character below the cutoff is none, whatever its rank.
C25_TopKAtOrAboveCutoff ==
    pc = "selected" =>
        LET k == HEURISTICS[cands.level][1]
            cutoff == HEURISTICS[cands.level][2]
        IN /\ CandidatesCostOneMinusWeight
           /\ \A ch \in ColumnKeys :
                 /\ (ValueOf(ch) >= cutoff /\ SurelyInTop(ch, k)) => InSeq(ch, cands.c.chars)
                 /\ ValueOf(ch) < cutoff => ~InSeq(ch, cands.c.chars)

\* C25, amended: the heaviest character of the column is always the first
\* candidate; of the other characters, one that ranks in the top k with a
\* weight strictly above the cutoff is a candidate and one at or below the
\* cutoff is none; each candidate costs 1 minus its aggregated weight.
C25_HeadAndTopKAboveCutoff ==
    pc = "selected" =>
        LET k == HEURISTICS[cands.level][1]
            cutoff == HEURISTICS[cands.level][2]
            head == cands.c.chars[1]
        IN /\ CandidatesCostOneMinusWeight
           /\ cands.c.chars # <<>>
           /\ \A ch \in ColumnKeys : ValueOf(ch) <= ValueOf(head)
           /\ \A ch \in ColumnKeys \ {head} :
                 /\ (ValueOf(ch) > cutoff /\ SurelyInTop(ch, k)) => InSeq(ch, cands.c.chars)
                 /\ ValueOf(ch) <= cutoff => ~InSeq(ch, cands.c.chars)

\* at the first level a character exactly at the cutoff, ranking in the
\* top k, was dropped while a second candidate above the cutoff was kept
C25_Witness ==
    /\ pc = "selected" /\ cands.level = 1
    /\ Len(cands.c.chars) >= 2
    /\ \E ch \in ColumnKeys :
          /\ ValueOf(ch) = HEURISTICS[1][2]
          /\ SurelyInTop(ch, HEURISTICS[1][1])
          /\ ~InSeq(ch, cands.c.chars)

----------------------------------------------------------------------------
(* str_barycenter.string_barycenter *)

\* letters of the words given to string_barycenter: a vowel and a consonant
BaryLetters == {"a", "b"}

\* word weights: 0.01 and 0.03 around the cutoffs of the ladder, and 1.0
WeightVals == {1, 3, One}

\* the weights argument: None, one weight per word, or a list of another length
WeightArgs(n) ==
    {NoWeights} \cup {<<ws>> : ws \in [1..n -> WeightVals]}
        \cup {<<[i \in 1..k |-> One]>> : k \in (0..MaxWords) \ {n}}

CatchesValueErrorOnly(exc) == exc = "ValueError"

\* "except Exception" catches what the search and the candidate lists raise
Catches(exc) == exc \in {"AssertionError", "ValueError"}

AfterAttemptNoBreak(lvl, succeeded) ==
    IF lvl < Len(HEURISTICS) THEN [pc |-> "ladder", level |-> lvl + 1]
    ELSE [pc |-> "done", level |-> lvl]

\* the loop over HEURISTICS after an attempt: break on success, next level on
\* a caught failure, and the end of the loop after the last level
AfterAttempt(lvl, succeeded) ==
    IF succeeded THEN [pc |-> "done", level |-> lvl]
    ELSE IF lvl < Len(HEURISTICS) THEN [pc |-> "ladder", level |-> lvl + 1]
    ELSE [pc |-> "done", level |-> lvl]

InitBary ==
    /\ pc = "call"
    /\ words \in WordListsUpTo(BaryLetters, MaxWords, MaxWordLen)
    /\ weights \in WeightArgs(Len(words))
    /\ aligned = <<>> /\ seq_idx = 0 /\ columns = <<>>
    /\ level = 0 /\ attempts = <<>> /\ bary = <<>> /\ error = None
    /\ SampleIdle /\ ColumnIdle /\ CallIdle

WeightsMismatchUnchecked(ws, wds) == FALSE

\* weights is not None and len(weights) != len(words)
WeightsMismatch(ws, wds) == ws # NoWeights /\ Len(ws[1]) # Len(wds)

\* the checks of the arguments and the default weights
Validate ==
    /\ pc = "call"
    /\ IF words = <<>> \/ WeightsMismatch(weights, words)
       THEN /\ error' = "ValueError"
            /\ pc' = "raised"
            /\ UNCHANGED weights
       ELSE /\ weights' = IF weights = NoWeights
                          THEN <<[i \in 1..Len(words) |-> One]>>
                          ELSE weights
            /\ pc' = "align"
            /\ UNCHANGED error
    /\ UNCHANGED <<msaVars, level, attempts, bary, sampleVars, columnVars, callVars>>

\* bary = "", tokens = [], token_weights = [] before the loop over HEURISTICS
BeginLadder ==
    /\ pc = "aligned"
    /\ bary' = <<>>
    /\ tokens' = <<>>
    /\ token_weights' = <<>>
    /\ level' = 1
    /\ pc' = "ladder"
    /\ UNCHANGED <<memo_size_limit, depth_limit, result, msaVars, weights,
                   attempts, error, columnVars, callVars>>

\* one iteration of "for heuristic in HEURISTICS": compute_bary in its try
TryHeuristic ==
    /\ pc = "ladder"
    /\ \E r \in {compute_bary(columns, weights[1], HEURISTICS[level])} :
       LET succeeded == r.result.kind = "returned"
           after == AfterAttempt(level, succeeded)
       IN /\ tokens' = r.tokens
          /\ token_weights' = r.token_weights
          /\ result' = r.result
          /\ attempts' = Append(attempts, [level |-> level, kind |-> r.result.kind,
                                           value |-> r.result.value])
          /\ bary' = IF succeeded THEN r.result.value ELSE bary
          /\ IF succeeded \/ Catches(r.result.value)
             THEN /\ pc' = after.pc
                  /\ level' = after.level
                  /\ UNCHANGED error
             ELSE /\ pc' = "raised"
                  /\ error' = r.result.value
                  /\ UNCHANGED level
    /\ UNCHANGED <<memo_size_limit, depth_limit, msaVars, weights, columnVars, callVars>>

Init == InitBary

Next ==
    \/ Validate
    \/ AlignStart
    \/ MsaAddWord
    \/ MsaReturn
    \/ BeginLadder
    \/ TryHeuristic

Spec == Init /\ [][Next]_vars

AllFailed == \A i \in 1..Len(attempts) : attempts[i].kind = "raised"

\* C7: the levels are tried in ladder order from the strictest; level i + 1
\* is attempted exactly when level i failed; the returned string is that of
\* the first level that succeeds, and nothing is tried after a success.
C7_LadderTriedInOrderUntilSuccess ==
    /\ \A i \in 1..(Len(HEURISTICS) - 1) :
          HEURISTICS[i][1] <= HEURISTICS[i + 1][1] /\ HEURISTICS[i][2] >= HEURISTICS[i + 1][2]
    /\ Len(attempts) <= Len(HEURISTICS)
    /\ \A i \in 1..Len(attempts) : attempts[i].level = i
    /\ \A i \in 1..(Len(attempts) - 1) : attempts[i].kind = "raised"
    /\ pc = "ladder" => (AllFailed /\ level = Len(attempts) + 1)
    /\ pc = "done" =>
          /\ Len(attempts) >= 1
          /\ attempts[Len(attempts)].kind = "raised" => Len(attempts) = Len(HEURISTICS)
          /\ attempts[Len(attempts)].kind = "returned" => bary = attempts[Len(attempts)].value

\* the strictest level failed and a looser one gave the result
C7_Witness ==
    /\ pc = "done" /\ Len(attempts) = 2
    /\ attempts[1].kind = "raised" /\ attempts[2].kind = "returned"
    /\ bary # <<>>

\* C8: when every level fails string_barycenter returns the empty string and
\* raises nothing; no failure of a search leaves it as an exception.
C8_ExhaustedLadderReturnsEmpty ==
    /\ (pc = "done" /\ AllFailed) => (bary = <<>> /\ error = None)
    /\ pc = "raised" => attempts = <<>>

\* all three levels were tried and failed on words sharing a column
C8_Witness ==
    /\ pc = "done" /\ Len(attempts) = Len(HEURISTICS) /\ AllFailed
    /\ Len(columns) >= 2 /\ bary = <<>> /\ error = None

\* C13: when the number of weights differs from the number of words,
\* string_barycenter raises ValueError before anything is aligned or
\* searched, and no level of the ladder turns the error into a result.
C13_MismatchRaisesBeforeAlignment ==
    (pc # "call" /\ weights # NoWeights /\ Len(weights[1]) # Len(words)) =>
        /\ pc = "raised" /\ error = "ValueError"
        /\ aligned = <<>> /\ columns = <<>>
        /\ attempts = <<>> /\ result = NoResult /\ bary = <<>>

\* two or more words with a weight list of another length: the call raised
C13_Witness ==
    /\ pc = "raised" /\ error = "ValueError"
    /\ Len(words) >= 2 /\ weights # NoWeights
    /\ Len(weights[1]) # Len(words) /\ Len(weights[1]) >= 1

----------------------------------------------------------------------------
(* assign_spellings_using_barycenter.compute_token: the words of one       *)
(* concept, one per language, with the weights of their languages          *)

\* LANG_WEIGHTS of the languages: 0.03, below the first cutoff, and 0.4
LangWeightVals == {3, 40}

\* IPA_TO_INTERLA is read from output/alphabet.csv, which is not part of the
\* sources; the model takes a one-to-one relabelling of its letters.
IPA_TO_INTERLA == ("a" :> "A") @@ ("e" :> "E") @@ ("b" :> "B")

\* if word: only non-empty words are kept, each with its weight
KeepWord(word) == word # <<>>

RECURSIVE GatherFrom(_, _, _)
GatherFrom(entries, i, acc) ==
    IF i > Len(entries) THEN acc
    ELSE GatherFrom(entries, i + 1,
                    IF KeepWord(entries[i].word)
                    THEN [words |-> Append(acc.words, entries[i].word),
                          weights |-> Append(acc.weights, entries[i].weight)]
                    ELSE acc)

TokenBranchNoBypass(n) == IF n = 0 THEN "empty" ELSE "barycenter"

TokenBranchNoEmptyCase(n) == IF n = 1 THEN "single" ELSE "barycenter"

\* if len(words) == 0 ... elif len(words) == 1 ... else
TokenBranch(n) == IF n = 0 THEN "empty" ELSE IF n = 1 THEN "single" ELSE "barycenter"

\* "".join(IPA_TO_INTERLA[char] for char in int_ipa_token), "" on KeyError
ToOrthography(ipa) ==
    IF \A i \in 1..Len(ipa) : ipa[i] \in DOMAIN IPA_TO_INTERLA
    THEN [i \in 1..Len(ipa) |-> IPA_TO_INTERLA[ipa[i]]]
    ELSE <<>>

InitToken ==
    /\ pc = "token"
    /\ \E k \in 0..MaxEntries :
          assoc_words \in [1..k -> [word : WordsUpTo(BaryLetters, MaxWordLen),
                                    weight : LangWeightVals]]
    /\ caller = None /\ int_ipa_token = <<>> /\ int_orth_token = <<>>
    /\ SearchIdle /\ PairIdle
    /\ SampleIdle /\ MsaIdle /\ BaryIdle /\ ColumnIdle

\* the words and weights gathered, then the branch on their number: no
\* word, one word, or the call of string_barycenter
GatherWords ==
    /\ pc = "token"
    /\ LET g == GatherFrom(assoc_words, 1, [words |-> <<>>, weights |-> <<>>])
           branch == TokenBranch(Len(g.words))
       IN /\ words' = g.words
          /\ weights' = <<g.weights>>
          /\ CASE branch = "empty" ->
                    /\ int_ipa_token' = <<>>
                    /\ pc' = "convert"
                    /\ UNCHANGED caller
               [] branch = "single" ->
                    /\ int_ipa_token' = g.words[1]
                    /\ pc' = "convert"
                    /\ UNCHANGED caller
               [] branch = "barycenter" ->
                    /\ caller' = "compute_token"
                    /\ pc' = "call"
                    /\ UNCHANGED int_ipa_token
    /\ UNCHANGED <<assoc_words, int_orth_token, searchVars, comps>>
    /\ UNCHANGED <<aligned, seq_idx, columns, level, attempts, bary, error>>
    /\ UNCHANGED <<sampleVars, columnVars>>

\* string_barycenter returned to compute_token, or raised into its
\* "except Exception"
TokenReceive ==
    /\ caller = "compute_token"
    /\ pc \in {"done", "raised"}
    /\ int_ipa_token' = IF pc = "done" THEN bary ELSE <<>>
    /\ caller' = None
    /\ pc' = "convert"
    /\ UNCHANGED <<assoc_words, int_orth_token, searchVars, comps>>
    /\ UNCHANGED <<sampleVars, msaVars, baryVars, columnVars>>

\* the conversion to the Interla orthography and the return
Convert ==
    /\ pc = "convert"
    /\ int_orth_token' = IF int_ipa_token # <<>> THEN ToOrthography(int_ipa_token) ELSE <<>>
    /\ pc' = "token_done"
    /\ UNCHANGED <<caller, assoc_words, int_ipa_token, searchVars, comps>>
    /\ UNCHANGED <<sampleVars, msaVars, baryVars, columnVars>>

NextToken ==
    \/ GatherWords
    \/ Validate
    \/ AlignStart
    \/ MsaAddWord
    \/ MsaReturn
    \/ BeginLadder
    \/ TryHeuristic
    \/ TokenReceive
    \/ Convert

SpecToken == InitToken /\ [][NextToken]_vars

\* the words of the entries that are not empty, in order
NonEmptyWords == SelectSeq([i \in 1..Len(assoc_words) |-> assoc_words[i].word],
                           LAMBDA w : w # <<>>)

\* C11: when exactly one non-empty word is given, the barycenter is that
\* word itself, pronounceable or not, and neither alignment nor search is
\* run.
C11_SingleWordReturnedUnchanged ==
    (pc # "token" /\ Len(NonEmptyWords) = 1) =>
        /\ pc \in {"convert", "token_done"}
        /\ int_ipa_token = NonEmptyWords[1]
        /\ aligned = <<>> /\ columns = <<>> /\ attempts = <<>> /\ result = NoResult

\* a single word with two consecutive consonants came back unchanged
C11_Witness ==
    /\ pc = "token_done" /\ Len(assoc_words) = 1
    /\ ~Pronounceable(assoc_words[1].word)
    /\ int_ipa_token = assoc_words[1].word
    /\ Len(int_orth_token) = 2

\* C12: when no word is given, or every entry has an empty word, the
\* barycenter is the empty string and nothing is raised at any point.
C12_NoWordsGivesEmptyResult ==
    (pc # "token" /\ Len(NonEmptyWords) = 0) =>
        /\ pc \in {"convert", "token_done"}
        /\ int_ipa_token = <<>> /\ int_orth_token = <<>>
        /\ error = None

\* several entries, all with an empty word, ended with the empty result
C12_Witness ==
    /\ pc = "token_done" /\ Len(assoc_words) >= 2 /\ Len(NonEmptyWords) = 0
    /\ int_ipa_token = <<>> /\ error = None

----------------------------------------------------------------------------
(* Two computations of string_barycenter in one worker of process_map: each *)
(* has its own frame (words, weights, aligned, tokens, token_weights, bary), *)
(* and the model lets their ladder attempts interleave freely.  result is   *)
(* what the last search of the worker left behind.                          *)

PairWeightVals == {3, One}

\* the calls compute_token makes: non-empty words, one weight per word
PairCalls ==
    {c \in [words : WordListsUpTo(BaryLetters, MaxPairWords, MaxWordLen),
            weights : UNION {[1..k -> PairWeightVals] : k \in 1..MaxPairWords}] :
        /\ c.words # <<>>
        /\ Len(c.weights) = Len(c.words)
        /\ \A i \in 1..Len(c.words) : c.words[i] # <<>>}

\* the frame of a call of string_barycenter on its first line
NewFrame(call) ==
    [words |-> call.words, weights |-> call.weights, columns |-> <<>>,
     tokens |-> <<>>, token_weights |-> <<>>, level |-> 0, pc |-> "call",
     bary |-> <<>>, attempts |-> <<>>]

InitPair ==
    /\ pc = "pair"
    /\ \E c1, c2 \in PairCalls : comps = <<NewFrame(c1), NewFrame(c2)>>
    /\ result = NoResult
    /\ tokens = <<>> /\ token_weights = <<>>
    /\ memo_size_limit = DefaultMemoSizeLimit /\ depth_limit = NoDepthLimit
    /\ TokenIdle /\ SearchIdle
    /\ MsaIdle /\ BaryIdle /\ ColumnIdle

\* string_barycenter from its argument checks to the start of the ladder:
\* the alignment, then bary = "", tokens = [], token_weights = []
PairStart(c) ==
    /\ comps[c].pc = "call"
    /\ ~WeightsMismatch(<<comps[c].weights>>, comps[c].words)
    /\ comps' = [comps EXCEPT ![c].columns = Transpose(msa(comps[c].words)),
                              ![c].tokens = <<>>,
                              ![c].token_weights = <<>>,
                              ![c].bary = <<>>,
                              ![c].level = 1,
                              ![c].pc = "ladder"]
    /\ UNCHANGED <<pc, sampleVars, msaVars, baryVars, columnVars, tokenVars, searchVars>>

\* one iteration of "for heuristic in HEURISTICS" of computation c
PairAttempt(c) ==
    /\ comps[c].pc = "ladder"
    /\ \E r \in {compute_bary(comps[c].columns, comps[c].weights, HEURISTICS[comps[c].level])} :
       LET succeeded == r.result.kind = "returned"
           after == AfterAttempt(comps[c].level, succeeded)
           entry == [level |-> comps[c].level,
                     leftover |-> IF result.kind = "none" THEN Inf ELSE result.best,
                     start |-> [best |-> FreshSearch.best, memo |-> FreshSearch.memo],
                     tokens |-> r.tokens, token_weights |-> r.token_weights,
                     kind |-> r.result.kind, value |-> r.result.value]
       IN /\ result' = r.result
          /\ comps' = [comps EXCEPT
                         ![c].tokens = r.tokens,
                         ![c].token_weights = r.token_weights,
                         ![c].attempts = Append(@, entry),
                         ![c].bary = IF succeeded THEN r.result.value ELSE @,
                         ![c].level = IF succeeded \/ Catches(r.result.value)
                                      THEN after.level ELSE @,
                         ![c].pc = IF succeeded \/ Catches(r.result.value)
                                   THEN after.pc ELSE "raised"]
    /\ UNCHANGED <<pc, tokens, token_weights, memo_size_limit, depth_limit>>
    /\ UNCHANGED <<msaVars, baryVars, columnVars, tokenVars, searchVars>>

NextPair ==
    \/ \E c \in DOMAIN comps : PairStart(c)
    \/ \E c \in DOMAIN comps : PairAttempt(c)

SpecPair == InitPair /\ [][NextPair]_vars

\* the outcome of one attempt computed from nothing but its own inputs: the
\* columns and weights of its computation and its ladder level, searched from
\* incumbent +infinity with an empty memo
OwnAttempt(cols, ws, heuristic) ==
    LET cs == [i \in 1..Len(cols) |-> ColumnCandidates(CounterOf(cols[i], ws), heuristic)]
        toks == [i \in 1..Len(cols) |-> cs[i].chars]
        tw == [i \in 1..Len(cols) |-> cs[i].weights]
        r == recursive_search(0, <<>>, <<>>,
                 [best |-> Inf, memo |-> << >>, hit |-> FALSE, recorded |-> << >>],
                 [tokens |-> toks, token_weights |-> tw,
                  sorted_indices |-> [p \in 1..Len(tw) |-> SortedIndices(tw[p])],
                  min_future_weights |-> MinFutureWeights(tw),
                  memo_size_limit |-> DefaultMemoSizeLimit,
                  depth_limit |-> NoDepthLimit])
    IN [tokens |-> toks, token_weights |-> tw,
        outcome |-> IF toks = <<>> THEN <<"returned", <<>>>>
                    ELSE IF r.path # <<>> /\ Len(r.path) = Len(toks) /\ r.weight < Inf
                         THEN <<"returned", StripGaps(r.path)>>
                         ELSE <<"raised", "AssertionError">>]

----------------------------------------------------------------------------
(* Direct calls of recursive_search, as its tests make them: position 0,   *)
(* empty path, empty memo, default limits; the candidate order and the     *)
(* incumbent are arguments, min_future_weights is what sample_tokens       *)
(* computes.                                                               *)

\* the orders in which the candidates of a column of n candidates can be tried
OrdersOf(n) == {o \in [1..n -> 1..n] : Distinct(o)}

\* the sorted_indices arguments for the candidate costs tw
Orders(tw) == {o \in [1..Len(tw) -> UNION {OrdersOf(n) : n \in 1..MaxCands}] :
                 \A p \in 1..Len(tw) : Len(o[p]) = Len(tw[p])}

\* incumbents given to the call: finite ones, and float("inf")
IncumbentVals == {0 - MaxCost, 0, Inf}

\* recursive_search(0, [], [], [best], toks, tw, path_pronounciability_weight,
\*                  order, min_future_weights, {})
SearchFromRoot(toks, tw, order, best) ==
    recursive_search(0, <<>>, <<>>,
                     [best |-> best, memo |-> << >>, hit |-> FALSE, recorded |-> << >>],
                     [tokens |-> toks, token_weights |-> tw,
                      sorted_indices |-> order,
                      min_future_weights |-> MinFutureWeights(tw),
                      memo_size_limit |-> SearchMemoSizeLimit,
                      depth_limit |-> NoDepthLimit])

InitSearch ==
    /\ pc = "search"
    /\ \E cols \in SampleInputs :
          /\ \A p \in 1..Len(cols) : cols[p].chars # <<>>
          /\ tokens = [p \in 1..Len(cols) |-> cols[p].chars]
          /\ token_weights = [p \in 1..Len(cols) |-> cols[p].costs]
    /\ sorted_indices \in Orders(token_weights)
    /\ best_weight_so_far \in IncumbentVals
    /\ memo_size_limit = SearchMemoSizeLimit
    /\ depth_limit = NoDepthLimit
    /\ result = NoResult
    /\ caller = None /\ assoc_words = <<>> /\ int_ipa_token = <<>> /\ int_orth_token = <<>>
    /\ comps = <<>> /\ StackIdle
    /\ MsaIdle /\ BaryIdle /\ ColumnIdle

\* one call of recursive_search from the root, to its return
RecursiveSearch ==
    /\ pc = "search"
    /\ \E r \in {SearchFromRoot(tokens, token_weights, sorted_indices, best_weight_so_far)} :
          result' = [kind |-> "searched", path |-> r.path, weight |-> r.weight,
                     best |-> r.st.best, memo |-> r.st.memo, hit |-> r.st.hit]
    /\ pc' = "searched"
    /\ UNCHANGED <<tokens, token_weights, memo_size_limit, depth_limit>>
    /\ UNCHANGED <<msaVars, baryVars, columnVars, callVars>>

NextSearch == RecursiveSearch

SpecSearch == InitSearch /\ [][NextSearch]_vars

CostsNotNegative ==
    \A p \in 1..Len(token_weights) : \A i \in 1..Len(token_weights[p]) :
        token_weights[p][i] >= 0

\* C17: a search started without incumbent returns a path of the same cost
\* (or no path) whatever the order in which the candidates of each column
\* are tried.
C17_CostIndependentOfOrder ==
    (pc = "searched" /\ best_weight_so_far = Inf) =>
        \A o \in Orders(token_weights) :
            SearchFromRoot(tokens, token_weights, o, Inf).weight = result.weight

\* C17, restricted to candidate costs that are not negative
C17_CostIndependentOfOrderCostsNotNegative ==
    CostsNotNegative => C17_CostIndependentOfOrder

\* C19: started with an incumbent that no complete path undercuts, the
\* search returns the empty path with cost +infinity and leaves the
\* incumbent as it was; a path that equals the incumbent is pruned too.
C19_NothingBelowIncumbentReturnsNothing ==
    (pc = "searched"
        /\ \A f \in CompletePaths(tokens) : best_weight_so_far <= CostOf(f)) =>
        /\ result.path = <<>>
        /\ result.weight = Inf
        /\ result.best = best_weight_so_far

\* a finite incumbent, met exactly by a feasible path over several columns
C19_Witness ==
    /\ pc = "searched" /\ best_weight_so_far < Inf /\ Len(tokens) >= 2
    /\ \A f \in CompletePaths(tokens) : best_weight_so_far <= CostOf(f)
    /\ \E f \in CompletePaths(tokens) :
          CostOf(f) = best_weight_so_far /\ ~OnlyGaps(PathOf(f))
    /\ result.path = <<>> /\ result.weight = Inf

\* C20: over zero columns the search started without incumbent returns the
\* empty path with cost 0.0.
C20_ZeroColumnsReturnsZero ==
    (pc = "searched" /\ tokens = <<>> /\ best_weight_so_far = Inf) =>
        (result.path = <<>> /\ result.weight = 0)

\* the i-th word weighs more than all the other words together
Dominates(i) ==
    /\ weights # NoWeights /\ Len(weights[1]) = Len(words)
    /\ 2 * weights[1][i] > SumSeq(weights[1])

\* C14 as stated: if one word weighs more than all the others together and
\* has itself a finite cost, string_barycenter returns exactly that word.
C14_DominantWordReturned ==
    pc = "done" =>
        \A i \in 1..Len(words) :
            (Dominates(i) /\ Pronounceable(words[i])) => bary = words[i]

\* C14 amended: the same, for a dominant word that is not empty.
C14_NonEmptyDominantWordReturned ==
    pc = "done" =>
        \A i \in 1..Len(words) :
            (Dominates(i) /\ Pronounceable(words[i]) /\ words[i] # <<>>)
                => bary = words[i]

\* three words, the dominant one neither first nor equal to the others
C14_Witness ==
    /\ pc = "done" /\ Len(words) = 3
    /\ \E i \in 2..3 :
          /\ Dominates(i) /\ Pronounceable(words[i]) /\ Len(words[i]) = 2
          /\ bary = words[i]
          /\ \A k \in 1..3 : k # i => (words[k] # words[i] /\ words[k] # <<>>)

\* candidate i of column p is tried before candidate j: ascending cost,
\* equal costs in the order of the candidate list
TriedBefore(p, i, j) ==
    \/ token_weights[p][i] < token_weights[p][j]
    \/ token_weights[p][i] = token_weights[p][j] /\ i < j

\* the complete path f is explored before the complete path g
ExploredBefore(f, g) ==
    \E p \in 1..Len(tokens) :
        /\ \A q \in 1..(p - 1) : f[q] = g[q]
        /\ f[p] # g[p] /\ TriedBefore(p, f[p], g[p])

MinimalPath(f) ==
    Eligible(f) /\ \A g \in CompletePaths(tokens) : Eligible(g) => CostOf(f) <= CostOf(g)

\* C15: when several feasible complete paths share the minimal cost, the
\* search returns the one that comes first in exploration order.
C15_FirstMinimalPathReturned ==
    (pc = "done" /\ SearchRan /\ ~result.hit
        /\ \E f, g \in CompletePaths(tokens) : f # g /\ MinimalPath(f) /\ MinimalPath(g)) =>
        /\ result.kind = "returned"
        /\ \E f \in CompletePaths(tokens) :
              /\ MinimalPath(f) /\ PathOf(f) = result.path
              /\ \A g \in CompletePaths(tokens) :
                    (MinimalPath(g) /\ g # f) => ExploredBefore(f, g)

\* C15, restricted to candidate costs that are not negative
C15_FirstMinimalPathReturnedCostsNotNegative ==
    (\A p \in 1..Len(token_weights) : \A i \in 1..Len(token_weights[p]) :
         token_weights[p][i] >= 0) => C15_FirstMinimalPathReturned

\* place of a character among the keys of the counter, that is, the rank of
\* the first word that contributed it
FirstContribution(char) == CHOOSE i \in 1..Len(counter) : counter[i][1] = char

\* C15, the order inside one column: candidates of equal cost are listed,
\* and so tried, in the order of the first words that contributed them.
C15_TiedCandidatesInWordOrder ==
    pc = "selected" =>
        \A i, j \in 1..Len(cands.c.chars) :
            (i < j /\ cands.c.weights[i] = cands.c.weights[j]) =>
                /\ FirstContribution(cands.c.chars[i]) < FirstContribution(cands.c.chars[j])
                /\ \E a, b \in 1..Len(cands.c.chars) :
                      /\ a < b
                      /\ SortedIndices(cands.c.weights)[a] = i
                      /\ SortedIndices(cands.c.weights)[b] = j

\* C16: the memo never holds more than memo_size_limit entries; stated on
\* the memo as the search leaves it, which holds every entry ever stored
\* (no entry is removed during a search).
C16_MemoWithinLimit ==
    pc = "done" => Cardinality(DOMAIN result.memo) <= memo_size_limit

\* the node (position, path) of the prefix of f of length p, visited by the
\* last search: every call entered below the memo limit stores its node
Visited(f, p) == <<p, SubSeq(PathOf(f), 1, p)>> \in DOMAIN result.memo

\* the estimate the search compares with the incumbent at the prefix of f of
\* length p: the cost of the prefix plus the least cost of each later column
EstimatedTotal(f, p) ==
    Plus(IF p = 0 THEN 0
         ELSE path_pronounciability_weight(SubSeq(PathOf(f), 1, p),
                                           SubSeq(WeightsOf(f), 1, p)),
         MinFutureFrom(token_weights, p + 1))

BoundIsAdmissible ==
    \A f \in CompletePaths(tokens) : \A p \in 0..Len(tokens) :
        (Visited(f, p) /\ ~OnlyGaps(PathOf(f))) => EstimatedTotal(f, p) <= CostOf(f)

SearchedWithoutLimit ==
    /\ pc = "done" /\ SearchRan /\ memo_size_limit = DefaultMemoSizeLimit
    /\ \A p \in 1..Len(tokens) : tokens[p] # <<>>

\* C22: for every partial path the search visits, its cost plus the least
\* possible cost of the remaining columns is at most the cost of every
\* complete path that extends it and holds a character, also when the
\* partial path is made only of gaps and for candidate costs below zero.
C22_BoundIsAdmissible == SearchedWithoutLimit => BoundIsAdmissible

\* C22, for candidate costs that are not negative: the bound is admissible.
C22_BoundIsAdmissibleCostsNotNegative ==
    (SearchedWithoutLimit /\ CostsNotNegative) => BoundIsAdmissible

----------------------------------------------------------------------------
(* recursive_search call by call: stack holds one frame per pending call,  *)
(* the search being started as sample_tokens starts it                      *)

\* costs of the candidates of the searches followed call by call
StackCostVals == 0..MaxStackCost

StackColumnSet ==
    UNION {{[chars |-> c, costs |-> w] :
                c \in {s \in [1..n -> Chars] : Distinct(s)},
                w \in [1..n -> StackCostVals]} : n \in 1..MaxCands}

StackInputs ==
    UNION {{cols \in [1..K -> StackColumnSet] : TotalCands(cols) <= MaxTotalCands} :
               K \in 1..MaxCols}

\* the frame of a call on its first line
NewCall(position, current_path, current_weights) ==
    [position |-> position, current_path |-> current_path,
     current_weights |-> current_weights, phase |-> "enter",
     k |-> 1, best_path |-> <<>>, best_weight |-> Inf]

ChildPositionStuck(position) == IF position = 0 THEN 1 ELSE position

\* position + 1, the position of the call made in the loop
ChildPosition(position) == position + 1

InitStack ==
    /\ pc = "stack"
    /\ \E cols \in StackInputs :
          /\ tokens = [p \in 1..Len(cols) |-> cols[p].chars]
          /\ token_weights = [p \in 1..Len(cols) |-> cols[p].costs]
    /\ sorted_indices = [p \in 1..Len(token_weights) |-> SortedIndices(token_weights[p])]
    /\ best_weight_so_far = FreshSearch.best
    /\ search_memo = FreshSearch.memo
    /\ memo_size_limit \in {MaxMemoLimit, DefaultMemoSizeLimit}
    /\ depth_limit = NoDepthLimit
    /\ stack = <<NewCall(0, <<>>, <<>>)>>
    /\ ret = NoReturn /\ entered = <<>> /\ memo_hits = 0
    /\ result = NoResult
    /\ comps = <<>> /\ TokenIdle
    /\ MsaIdle /\ BaryIdle /\ ColumnIdle

Top == stack[Len(stack)]

Pop == SubSeq(stack, 1, Len(stack) - 1)

ReturnValue(path, weight) == [kind |-> "value", path |-> path, weight |-> weight]

\* a call from its first line to the loop: the memo lookup, the size limit,
\* the pruning test and the base case each return; otherwise the loop begins
EnterCall ==
    /\ pc = "stack" /\ stack # <<>> /\ Top.phase = "enter"
    /\ LET f == Top
           memo_key == <<f.position, HashPath(f.current_path)>>
           use_memo == UseMemo(depth_limit, f.current_path)
           current_weight ==
               IF f.current_path # <<>>
               THEN path_pronounciability_weight(f.current_path, f.current_weights)
               ELSE 0
           min_future_weights == MinFutureWeights(token_weights)
           Store(r) == IF use_memo THEN (memo_key :> r) @@ search_memo ELSE search_memo
           pruned == [path |-> <<>>, weight |-> Inf]
           here == [path |-> f.current_path, weight |-> current_weight]
       IN /\ entered' = Append(entered, memo_key)
          /\ IF memo_key \in DOMAIN search_memo
             THEN /\ ret' = ReturnValue(search_memo[memo_key].path, search_memo[memo_key].weight)
                  /\ memo_hits' = memo_hits + 1
                  /\ stack' = Pop
                  /\ UNCHANGED <<search_memo, best_weight_so_far>>
             ELSE IF MemoFull(search_memo, memo_size_limit)
             THEN /\ ret' = ReturnValue(here.path, here.weight)
                  /\ stack' = Pop
                  /\ UNCHANGED <<search_memo, best_weight_so_far, memo_hits>>
             ELSE IF f.position < Len(min_future_weights)
                     /\ Prunes(Plus(current_weight, min_future_weights[f.position + 1]),
                               best_weight_so_far)
             THEN /\ ret' = ReturnValue(pruned.path, pruned.weight)
                  /\ search_memo' = Store(pruned)
                  /\ stack' = Pop
                  /\ UNCHANGED <<best_weight_so_far, memo_hits>>
             ELSE IF f.position >= Len(tokens)
             THEN IF AllGaps(f.current_path)
                  THEN /\ ret' = ReturnValue(pruned.path, pruned.weight)
                       /\ search_memo' = Store(pruned)
                       /\ stack' = Pop
                       /\ UNCHANGED <<best_weight_so_far, memo_hits>>
                  ELSE /\ best_weight_so_far' =
                              IF Improves(current_weight, best_weight_so_far)
                              THEN current_weight ELSE best_weight_so_far
                       /\ ret' = ReturnValue(here.path, here.weight)
                       /\ search_memo' = Store(here)
                       /\ stack' = Pop
                       /\ UNCHANGED memo_hits
             ELSE /\ stack' = [stack EXCEPT ![Len(stack)].phase = "loop"]
                  /\ UNCHANGED <<ret, search_memo, best_weight_so_far, memo_hits>>
    /\ UNCHANGED <<pc, sorted_indices, sampleVars, msaVars, baryVars, columnVars,
                   tokenVars, comps>>

\* the recursive call of one iteration of "for token_idx in sorted_indices[position]"
Descend ==
    /\ pc = "stack" /\ stack # <<>> /\ Top.phase = "loop" /\ ret = NoReturn
    /\ Top.k <= Len(sorted_indices[Top.position + 1])
    /\ LET f == Top
           token_idx == sorted_indices[f.position + 1][f.k]
           token == tokens[f.position + 1][token_idx]
           token_weight == token_weights[f.position + 1][token_idx]
       IN stack' = Append(stack, NewCall(ChildPosition(f.position),
                                         Append(f.current_path, token),
                                         Append(f.current_weights, token_weight)))
    /\ UNCHANGED <<pc, ret, search_memo, entered, memo_hits, sorted_indices,
                   best_weight_so_far, sampleVars, msaVars, baryVars, columnVars,
                   tokenVars, comps>>

\* the rest of the iteration, after the recursive call has returned
TakeReturn ==
    /\ pc = "stack" /\ stack # <<>> /\ Top.phase = "loop" /\ ret # NoReturn
    /\ LET better == ret.weight < Top.best_weight
       IN stack' = [stack EXCEPT
                      ![Len(stack)].best_weight = IF better THEN ret.weight ELSE @,
                      ![Len(stack)].best_path = IF better THEN ret.path ELSE @,
                      ![Len(stack)].k = @ + 1]
    /\ ret' = NoReturn
    /\ UNCHANGED <<pc, search_memo, entered, memo_hits, sorted_indices,
                   best_weight_so_far, sampleVars, msaVars, baryVars, columnVars,
                   tokenVars, comps>>

\* the end of the loop: the result is stored in the memo and returned
LeaveLoop ==
    /\ pc = "stack" /\ stack # <<>> /\ Top.phase = "loop" /\ ret = NoReturn
    /\ Top.k > Len(sorted_indices[Top.position + 1])
    /\ LET f == Top
           r == [path |-> f.best_path, weight |-> f.best_weight]
       IN /\ search_memo' =
                IF UseMemo(depth_limit, f.current_path)
                THEN (<<f.position, HashPath(f.current_path)>> :> r) @@ search_memo
                ELSE search_memo
          /\ ret' = ReturnValue(r.path, r.weight)
    /\ stack' = Pop
    /\ UNCHANGED <<pc, entered, memo_hits, sorted_indices, best_weight_so_far,
                   sampleVars, msaVars, baryVars, columnVars, tokenVars, comps>>

\* the outermost call has returned to sample_tokens
ReturnToCaller ==
    /\ pc = "stack" /\ stack = <<>> /\ ret # NoReturn
    /\ result' = [kind |-> "searched", path |-> ret.path, weight |-> ret.weight,
                  best |-> best_weight_so_far, memo |-> search_memo]
    /\ pc' = "searched"
    /\ UNCHANGED <<tokens, token_weights, memo_size_limit, depth_limit>>
    /\ UNCHANGED <<searchVars, msaVars, baryVars, columnVars, tokenVars, comps>>

NextStack ==
    \/ EnterCall
    \/ Descend
    \/ TakeReturn
    \/ LeaveLoop
    \/ ReturnToCaller

SpecStack == InitStack /\ [][NextStack]_vars

\* the calls are run to the end: a pending step is eventually taken
SpecStackFair == SpecStack /\ WF_vars(NextStack)

\* the search followed call by call ends as the search taken as a whole
StackAgreesWithSearch ==
    pc = "searched" =>
        LET r == recursive_search(0, <<>>, <<>>,
                     [best |-> Inf, memo |-> << >>, hit |-> FALSE, recorded |-> << >>],
                     [tokens |-> tokens, token_weights |-> token_weights,
                      sorted_indices |-> sorted_indices,
                      min_future_weights |-> MinFutureWeights(token_weights),
                      memo_size_limit |-> memo_size_limit,
                      depth_limit |-> depth_limit])
        IN /\ result.path = r.path /\ result.weight = r.weight
           /\ result.best = r.st.best /\ result.memo = r.st.memo

\* C26: the search terminates, and at no time are more than K + 1 calls of
\* recursive_search pending, K being the number of columns.
C26_SearchTerminatesWithinDepth ==
    /\ [](Len(stack) <= Len(tokens) + 1)
    /\ <>(pc = "searched")

\* K + 1 calls are pending: a call at position K below one per column
C26_Witness ==
    /\ pc = "stack" /\ Len(tokens) >= 2
    /\ Len(stack) = Len(tokens) + 1
    /\ Top.position = Len(tokens) /\ Top.phase = "enter"

\* the path has cost +infinity, whatever its weights
Infeasible(path) ==
    path_pronounciability_weight(path, [i \in 1..Len(path) |-> 0]) = Inf

\* what may follow a path: up to two further characters or gaps
Extensions == UNION {[1..n -> {"-", "a", "e", "b"}] : n \in 0..2}

\* the path of the call entered last
LastEntered == entered[Len(entered)][2]

\* C27: when the path of a call has cost +infinity, so has every extension
\* of it by further characters or gaps; so no complete path below it has a
\* finite cost, and the call returns without descending.
C27_InfeasiblePrefixStaysInfeasible ==
    (entered # <<>> /\ Infeasible(LastEntered)) =>
        /\ \A e \in Extensions : Infeasible(LastEntered \o e)
        /\ \A f \in CompletePaths(tokens) :
              SubSeq(PathOf(f), 1, Len(LastEntered)) = LastEntered => CostOf(f) = Inf
        /\ \A i \in 1..Len(stack) : Len(stack[i].current_path) <= Len(LastEntered)

\* a call on an infeasible path with columns left below it has returned
\* without a result
C27_Witness ==
    /\ pc = "stack" /\ entered # <<>>
    /\ Infeasible(LastEntered)
    /\ Len(LastEntered) < Len(tokens)
    /\ ret = ReturnValue(<<>>, Inf)

----------------------------------------------------------------------------
(* string_barycenter on longer words, one weight per word *)

\* word weights: 0.01, which only the later levels keep, and 1.0
LongWeightVals == {1, One}

InitLong ==
    /\ pc = "call"
    /\ words \in WordListsUpTo(BaryLetters, MaxWords, MaxLongWordLen)
    /\ words # <<>>
    /\ weights \in {<<ws>> : ws \in [1..Len(words) -> LongWeightVals]}
    /\ aligned = <<>> /\ seq_idx = 0 /\ columns = <<>>
    /\ level = 0 /\ attempts = <<>> /\ bary = <<>> /\ error = None
    /\ SampleIdle /\ ColumnIdle /\ CallIdle

SpecLong == InitLong /\ [][Next]_vars

\* the candidates of every column at level i, with their costs
CandidatesAt(i) ==
    [p \in 1..Len(columns) |->
        ColumnCandidates(CounterOf(columns[p], weights[1]), HEURISTICS[i])]

\* every candidate of a column at level i is one at level i + 1, at the same cost
NestedAt(i) ==
    \A p \in 1..Len(columns) :
        \A a \in 1..Len(CandidatesAt(i)[p].chars) :
            \E b \in 1..Len(CandidatesAt(i + 1)[p].chars) :
                /\ CandidatesAt(i + 1)[p].chars[b] = CandidatesAt(i)[p].chars[a]
                /\ CandidatesAt(i + 1)[p].weights[b] = CandidatesAt(i)[p].weights[a]

\* the search of level i on the alignment, whether the ladder reaches it or not
SearchAt(i) == compute_bary(columns, weights[1], HEURISTICS[i]).result

\* C28: on one alignment the candidates of level i are candidates of level
\* i + 1 at the same costs, and when the search of level i succeeds, the
\* search of level i + 1 succeeds with a cost that is not greater.
C28_LaterLevelIsNotWorse ==
    pc = "aligned" =>
        \A i \in 1..(Len(HEURISTICS) - 1) :
            /\ NestedAt(i)
            /\ SearchAt(i).kind = "returned" =>
                  /\ SearchAt(i + 1).kind = "returned"
                  /\ SearchAt(i + 1).weight <= SearchAt(i).weight

\* C28, the part about the candidates alone: they are nested along the ladder.
C28_CandidatesNested ==
    pc = "aligned" => \A i \in 1..(Len(HEURISTICS) - 1) : NestedAt(i)

\* C28, the part about success alone: a later level succeeds when an earlier does.
C28_LaterLevelSucceeds ==
    pc = "aligned" =>
        \A i \in 1..(Len(HEURISTICS) - 1) :
            SearchAt(i).kind = "returned" => SearchAt(i + 1).kind = "returned"

----------------------------------------------------------------------------
(* msa: columns of gaps only *)

NoGapInWords == \A k \in 1..Len(words) : ~HasGap(words[k])

\* no position at which every sequence holds a gap or has ended
NoAllGapColumn(al) ==
    \A i \in 1..MaxLen(al) : \E k \in 1..Len(al) : i <= Len(al[k]) /\ al[k][i] # "-"

\* the sequences as they stand just before the padding loop of this iteration
BeforePadding ==
    LET a == pairwise_alignment(Consensus(aligned), words[seq_idx],
                                GapPenalty, MatchScore, MismatchPenalty)
    IN Append(propagate_gaps_to_all(aligned, a[1]), a[2])

\* C29: for words without "-", in every iteration of msa the consensus built
\* from the current alignment holds no gap, the padding loop changes nothing,
\* and the alignment after the iteration has no column of gaps only.
C29_NoColumnOfGapsOnly ==
    [][(NoGapInWords /\ pc = "msa" /\ seq_idx' = seq_idx + 1) =>
          /\ ~HasGap(Consensus(aligned))
          /\ \A k \in 1..Len(BeforePadding) :
                Len(BeforePadding[k]) = MaxLen(BeforePadding)
          /\ aligned' = BeforePadding
          /\ NoAllGapColumn(aligned')
      ]_vars

\* three words aligned, with a gap in each of the first two sequences
C29_Witness ==
    /\ NoGapInWords
    /\ pc = "msa" /\ seq_idx = 4 /\ Len(aligned) = 3
    /\ HasGap(aligned[1]) /\ HasGap(aligned[2]) /\ ~HasGap(aligned[3])
    /\ NoAllGapColumn(aligned)

----------------------------------------------------------------------------
(* recursive_search call by call: the memo lookups *)

\* single-character candidates, no character twice in a column
DistinctCandidates ==
    \A p \in 1..Len(tokens) :
        \A i, j \in 1..Len(tokens[p]) : i # j => tokens[p][i] # tokens[p][j]

\* C30: over candidates that are distinct within each column, no two calls
\* of recursive_search are entered with the same key (position, path), and
\* no call finds its key in the memo, so no stored result is ever returned.
C30_EveryNodeEnteredOnce ==
    (pc \in {"stack", "searched"} /\ DistinctCandidates) =>
        /\ \A i, j \in 1..Len(entered) : i # j => entered[i] # entered[j]
        /\ memo_hits = 0

\* a finished search over two candidates in each of two columns, which
\* entered seven calls and stored results on the way
C30_Witness ==
    /\ pc = "searched" /\ DistinctCandidates
    /\ Len(tokens) = 2 /\ Len(tokens[1]) = 2 /\ Len(tokens[2]) = 2
    /\ Len(entered) = 7
    /\ Cardinality(DOMAIN result.memo) >= 2
    /\ memo_hits = 0

=============================================================================
